---- MODULE Spec2Model ----
(***************************************************************************)
(* Timer / recovery engine of the Hyrox tracker: the stopwatch state       *)
(* machine of timer.js, its debounced and immediate persistence to the     *)
(* IndexedDB meta store, the localStorage backup written at page teardown, *)
(* and the start-up path of app.js (resume banner, backup migration).      *)
(*                                                                         *)
(* Time is counted in units of 250 ms, so the 500 ms debounce window is    *)
(* two units.  JavaScript null is modelled by Null for number-valued       *)
(* fields; an absent store entry is the empty sequence and a present one   *)
(* is a one-element sequence.                                              *)
(***************************************************************************)
EXTENDS Integers, Sequences, FiniteSets, TLC

\* ---- bounds of the model ----
MaxTime == 3
MaxBlocks == 2
MaxRaf == 2
MaxSessions == 1
LifeMaxTime == 2
LifeMaxSessions == 1
ApiMaxTime == 2
ApiMaxBlocks == 2
ApiMaxSessions == 1
SkewMaxTime == 2
MaxSkews == 1
FrameMaxTime == 4
BannerMaxTime == 3
BannerMaxSessions == 2
MaxPbCalls == 3
MaxPbTime == 3

\* ---- program constants ----
DebounceWait == 2

Null == -1

VARIABLES
    timerState,         \* timer.js: let timerState
    subscribed,         \* timer.js: the three callback slots are set
    animationFrameId,   \* timer.js: let animationFrameId (TRUE = non-null)
    rafQueue,           \* pending requestAnimationFrame callbacks; TRUE marks the one animationFrameId names
    debounceAt,         \* utils.js debounce: deadlines of the pending setTimeout timers
    primary,            \* IndexedDB meta entry 'timerState'
    fallback,           \* localStorage item 'hyrox_timer_backup'
    now,                \* Date.now()
    hidden,             \* document.hidden
    nextId,             \* generateId(): next fresh workout id
    workoutActive,      \* full-sim.js: let workoutActive
    workoutComplete,    \* full-sim.js: let workoutComplete
    view,               \* what the full-sim screen shows
    completePc,         \* workout-complete handlers suspended at an await
    stopPc,             \* stopTimer(true) calls suspended at await clearTimerState()
    initPc,             \* app.js init(): position
    loadFired,          \* the window 'load' event has been dispatched
    loadListener,       \* the 'load' listener of setupVisibilityHandler is registered
    migPc,              \* load handler: position
    migBackup,          \* load handler: const backupState
    migExisting,        \* load handler: const existing
    banner,             \* resume banner: the record checkForActiveWorkout captured
    bannerVisible,      \* resume banner is shown
    resumeAccepted,     \* the Resume button of the banner has been clicked
    personalBest,       \* db.js: bestTimeMs of one personalBests entry, Null if there is none
    pbCalls,            \* updatePersonalBest() calls for that entry, each with its position
    restorePc,          \* restoreTimer() calls suspended at await getTimerState(), with the record read
    \* ---- history variables (observations, not program state) ----
    runMs,              \* clock time that passed while the engine was Running, current block
    intervals,          \* Running intervals of the current block so far (saturates at 2)
    sprOnly,            \* only start/pause/resume/tick ran on this block since it began
    blockEvents,        \* number of block-complete emissions of this session (saturates at 3)
    completeEvents,     \* number of workout-complete emissions of this session (saturates at 2)
    reported,           \* last workout-complete payload with totalElapsed() read just before
    tornDown,           \* timerState at the last page teardown, if it was active
    primaryAtStart,     \* primary store at the last application start
    fallbackAtStart,    \* fallback slot at the last application start
    discarded,          \* workout ids whose stop(discard=true) has completed
    skews               \* number of times the wall clock has been set back

engineVars == <<timerState, subscribed, animationFrameId, rafQueue, debounceAt, primary,
                now, hidden, nextId, workoutActive, workoutComplete, view, completePc, stopPc>>
lifeVars == <<fallback, initPc, loadFired, loadListener, migPc, migBackup, migExisting,
              banner, bannerVisible, resumeAccepted, restorePc>>
histVars == <<runMs, intervals, sprOnly, blockEvents, completeEvents, reported,
              tornDown, primaryAtStart, fallbackAtStart, discarded, skews>>
pbVars == <<personalBest, pbCalls>>
vars == <<engineVars, lifeVars, histVars, pbVars>>

\* ---- JavaScript value helpers ----
\* !x for a number-or-null value
Falsy(x) == x = Null \/ x = 0
\* ToNumber(x) as applied by the arithmetic operators: null -> 0
ToNum(x) == IF x = Null THEN 0 ELSE x
Min(a, b) == IF a < b THEN a ELSE b

RECURSIVE SumSeq(_)
SumSeq(s) == IF s = <<>> THEN 0 ELSE ToNum(Head(s)) + SumSeq(Tail(s))

\* arr[i] = v  (0-based i; writing one past the end extends the array)
SetAt(arr, i, v) ==
    IF i + 1 <= Len(arr) THEN [arr EXCEPT ![i + 1] = v] ELSE Append(arr, v)

\* ---- timer.js: state template and pure functions ----
EmptyTimerState ==
    [ workoutId |-> Null, mode |-> "none", category |-> "none", blocks |-> <<>>,
      currentBlockIndex |-> 0, blockTimesMs |-> <<>>,
      isRunning |-> FALSE, isPaused |-> FALSE,
      startTimestamp |-> Null, pausedAt |-> Null,
      accumulatedMs |-> 0, workoutStartTimestamp |-> Null ]

initTimer(workoutId, n) ==
    [ workoutId |-> workoutId, mode |-> "sim", category |-> "amateur",
      blocks |-> [i \in 1..n |-> i],
      currentBlockIndex |-> 0, blockTimesMs |-> [i \in 1..n |-> Null],
      isRunning |-> FALSE, isPaused |-> FALSE,
      startTimestamp |-> Null, pausedAt |-> Null,
      accumulatedMs |-> 0, workoutStartTimestamp |-> Null ]

\* currentElapsed that keeps counting from startTimestamp while Paused
getCurrentElapsedWhilePaused(ts, t) ==
    IF ~ts.isRunning /\ ~ts.isPaused THEN 0
    ELSE ts.accumulatedMs + (t - ToNum(ts.startTimestamp))

getCurrentElapsed(ts, t) ==
    IF ~ts.isRunning /\ ~ts.isPaused THEN 0
    ELSE IF ts.isPaused THEN ts.accumulatedMs
    ELSE ts.accumulatedMs + (t - ToNum(ts.startTimestamp))

getTotalElapsed(ts, t) ==
    IF Falsy(ts.workoutStartTimestamp) THEN 0
    ELSE SumSeq(ts.blockTimesMs) + getCurrentElapsed(ts, t)

isActive(ts) == ts.isRunning \/ ts.isPaused

isLastBlock(ts) == ts.currentBlockIndex >= Len(ts.blocks) - 1

\* startTimer() that leaves the paused flag as it finds it
startTimerStateKeepPaused(ts, t) ==
    LET w == IF Falsy(ts.workoutStartTimestamp) THEN t ELSE ts.workoutStartTimestamp
        acc == IF ts.isPaused THEN ts.accumulatedMs ELSE 0
    IN [ts EXCEPT !.workoutStartTimestamp = w, !.startTimestamp = t,
                  !.accumulatedMs = acc, !.isRunning = TRUE, !.pausedAt = Null]

\* the assignments of startTimer() once past its guard
startTimerState(ts, t) ==
    LET w == IF Falsy(ts.workoutStartTimestamp) THEN t ELSE ts.workoutStartTimestamp
        acc == IF ts.isPaused THEN ts.accumulatedMs ELSE 0
    IN [ts EXCEPT !.workoutStartTimestamp = w, !.startTimestamp = t,
                  !.accumulatedMs = acc, !.isPaused = FALSE,
                  !.isRunning = TRUE, !.pausedAt = Null]

\* pauseTimer() that overwrites the accumulated time instead of adding to it
pauseTimerStateOverwrite(ts, t) ==
    [ts EXCEPT !.accumulatedMs = t - ToNum(ts.startTimestamp),
               !.isPaused = TRUE, !.pausedAt = t, !.isRunning = FALSE]

\* the assignments of pauseTimer() once past its guard
pauseTimerState(ts, t) ==
    [ts EXCEPT !.accumulatedMs = ts.accumulatedMs + (t - ToNum(ts.startTimestamp)),
               !.isPaused = TRUE, !.pausedAt = t, !.isRunning = FALSE]

\* nextBlock() that records only the current Running interval as the block's time
nextBlockStateLastInterval(ts, t) ==
    LET cur == IF ts.isRunning THEN t - ToNum(ts.startTimestamp) ELSE getCurrentElapsed(ts, t)
        rec == [ts EXCEPT !.blockTimesMs = SetAt(ts.blockTimesMs, ts.currentBlockIndex, cur)]
    IN IF isLastBlock(ts)
       THEN [rec EXCEPT !.isRunning = FALSE]
       ELSE [rec EXCEPT !.currentBlockIndex = ts.currentBlockIndex + 1,
                        !.accumulatedMs = 0, !.startTimestamp = t]

\* nextBlock(): the state it leaves
nextBlockState(ts, t) ==
    LET cur == getCurrentElapsed(ts, t)
        rec == [ts EXCEPT !.blockTimesMs = SetAt(ts.blockTimesMs, ts.currentBlockIndex, cur)]
    IN IF isLastBlock(ts)
       THEN [rec EXCEPT !.isRunning = FALSE]
       ELSE [rec EXCEPT !.currentBlockIndex = ts.currentBlockIndex + 1,
                        !.accumulatedMs = 0, !.startTimestamp = t]

\* cancelAnimationFrame(animationFrameId): drops the callback the id names, if still pending
CancelTracked(q) == SelectSeq(q, LAMBDA b : ~b)
\* requestAnimationFrame(tick) with the id stored in animationFrameId
RequestFrame(q) == Append([i \in 1..Len(q) |-> FALSE], TRUE)


\* ---- JSON.stringify / JSON.parse of a timerState object ----
\* A JSON value is a tagged pair; null is its own literal.
\* a serialiser that writes null as the number 0
JNumNullAsZero(x) == <<"number", ToNum(x)>>
JNum(x) == IF x = Null THEN <<"null", 0>> ELSE <<"number", x>>
JBool(b) == IF b THEN <<"true", 0>> ELSE <<"false", 0>>
JStr(x) == <<"string", x>>
JArr(a) == [i \in 1..Len(a) |-> JNum(a[i])]
PNum(j) == IF j[1] = "null" THEN Null ELSE j[2]
PBool(j) == j[1] = "true"
PArr(a) == [i \in 1..Len(a) |-> PNum(a[i])]

JSONstringify(ts) ==
    [ workoutId |-> JNum(ts.workoutId), mode |-> JStr(ts.mode), category |-> JStr(ts.category),
      blocks |-> JArr(ts.blocks), currentBlockIndex |-> JNum(ts.currentBlockIndex),
      blockTimesMs |-> JArr(ts.blockTimesMs),
      isRunning |-> JBool(ts.isRunning), isPaused |-> JBool(ts.isPaused),
      startTimestamp |-> JNum(ts.startTimestamp), pausedAt |-> JNum(ts.pausedAt),
      accumulatedMs |-> JNum(ts.accumulatedMs),
      workoutStartTimestamp |-> JNum(ts.workoutStartTimestamp) ]

JSONparse(j) ==
    [ workoutId |-> PNum(j.workoutId), mode |-> j.mode[2], category |-> j.category[2],
      blocks |-> PArr(j.blocks), currentBlockIndex |-> PNum(j.currentBlockIndex),
      blockTimesMs |-> PArr(j.blockTimesMs),
      isRunning |-> PBool(j.isRunning), isPaused |-> PBool(j.isPaused),
      startTimestamp |-> PNum(j.startTimestamp), pausedAt |-> PNum(j.pausedAt),
      accumulatedMs |-> PNum(j.accumulatedMs),
      workoutStartTimestamp |-> PNum(j.workoutStartTimestamp) ]

\* ---- utils.js debounce(func, wait) ----
\* a call of the debounced function that leaves the earlier timeout pending
debounceKeepPending(timers, t) == timers \cup {t + DebounceWait}

\* a call of the debounced function: clearTimeout(timeout); timeout = setTimeout(later, wait)
debounce(timers, t) == {t + DebounceWait}

\* ---- db.js: the meta entry 'timerState' ----
saveTimerState(state) == <<state>>
clearTimerState == <<>>
\* a stored record that carries a workout id
HasSession(store) == store # <<>> /\ store[1].workoutId # Null

\* ---- initial states ----
\* Module-level state of a freshly loaded page (timer.js 11-32, full-sim.js 44-51).
FreshPage ==
    /\ timerState = EmptyTimerState
    /\ subscribed = FALSE
    /\ animationFrameId = FALSE
    /\ rafQueue = <<>>
    /\ debounceAt = {}
    /\ hidden = FALSE
    /\ workoutActive = FALSE
    /\ workoutComplete = FALSE
    /\ completePc = 0
    /\ stopPc = <<>>
    /\ migPc = "idle"
    /\ migBackup = <<>>
    /\ migExisting = <<>>
    /\ banner = <<>>
    /\ bannerVisible = FALSE
    /\ resumeAccepted = FALSE
    /\ restorePc = <<>>

\* no personal best is stored and no update is under way
NoPersonalBests ==
    /\ personalBest = Null
    /\ pbCalls = <<>>

FreshHistory ==
    /\ runMs = 0
    /\ intervals = 0
    /\ sprOnly = FALSE
    /\ blockEvents = 0
    /\ completeEvents = 0
    /\ reported = <<>>
    /\ tornDown = <<>>
    /\ primaryAtStart = <<>>
    /\ fallbackAtStart = <<>>
    /\ discarded = {}
    /\ skews = 0

\* The application after a finished start-up on empty stores: init() has run, the
\* handlers are registered, the load event has passed, the full-sim screen is mounted.
Init ==
    /\ FreshPage
    /\ NoPersonalBests
    /\ FreshHistory
    /\ primary = <<>>
    /\ fallback = <<>>
    /\ now = 0
    /\ nextId = 1
    /\ initPc = "done"
    /\ loadFired = TRUE
    /\ loadListener = TRUE
    /\ view = "setup"

\* The first ever page load: init() has been called and awaits initDB().
InitLife ==
    /\ FreshPage
    /\ NoPersonalBests
    /\ FreshHistory
    /\ primary = <<>>
    /\ fallback = <<>>
    /\ now = 0
    /\ nextId = 1
    /\ initPc = "opening"
    /\ loadFired = FALSE
    /\ loadListener = FALSE
    /\ view = "none"

\* ---- history bookkeeping ----
SameSession == UNCHANGED <<runMs, intervals, sprOnly, blockEvents, completeEvents, reported>>
SameLife == UNCHANGED <<tornDown, primaryAtStart, fallbackAtStart, discarded, skews, pbVars>>
SameScreen == UNCHANGED <<workoutActive, workoutComplete, view, completePc, stopPc>>

\* ---- timer.js operations ----
\* tick() called while Running: tick callback, saveStateDebounced(), requestAnimationFrame
TickEffects ==
    /\ debounceAt' = debounce(debounceAt, now)
    /\ rafQueue' = RequestFrame(rafQueue)
    /\ animationFrameId' = TRUE

\* full-sim.js startWorkout(): initTimer, the three subscriptions, the active view, startTimer
StartWorkout(n, maxId) ==
    /\ view = "setup"
    /\ nextId <= maxId
    /\ Len(rafQueue) < MaxRaf
    /\ timerState' = startTimerState(initTimer(nextId, n), now)
    /\ TickEffects
    /\ nextId' = nextId + 1
    /\ subscribed' = TRUE
    /\ workoutActive' = TRUE
    /\ view' = "active"
    /\ runMs' = 0 /\ intervals' = 1 /\ sprOnly' = TRUE /\ blockEvents' = 0
    /\ completeEvents' = 0
    /\ reported' = <<>>
    /\ SameLife
    /\ UNCHANGED <<primary, now, hidden, workoutComplete, completePc, stopPc>>
    /\ UNCHANGED lifeVars

\* startTimer() without its guard: a call while Running starts over
StartTimerBodyUnguarded ==
    /\ timerState' = startTimerState(timerState, now)
    /\ TickEffects
    /\ intervals' = Min(intervals + 1, 2)

\* startTimer(): state, tick loop and debounced save
StartTimerBody ==
    IF timerState.isRunning
    THEN UNCHANGED <<timerState, debounceAt, rafQueue, animationFrameId, intervals>>
    ELSE /\ timerState' = startTimerState(timerState, now)
         /\ TickEffects
         /\ intervals' = Min(intervals + 1, 2)

StartTimer ==
    /\ Len(rafQueue) < MaxRaf \/ timerState.isRunning
    /\ StartTimerBody
    /\ UNCHANGED <<runMs, sprOnly, blockEvents, completeEvents, reported>>
    /\ SameLife /\ SameScreen
    /\ UNCHANGED <<subscribed, primary, now, hidden, nextId>>
    /\ UNCHANGED lifeVars

\* pauseTimer() that leaves the write to the debounced save
PauseTimerDebounced ==
    /\ IF ~timerState.isRunning \/ timerState.isPaused
       THEN UNCHANGED <<timerState, rafQueue, animationFrameId, debounceAt>>
       ELSE /\ timerState' = pauseTimerState(timerState, now)
            /\ rafQueue' = IF animationFrameId THEN CancelTracked(rafQueue) ELSE rafQueue
            /\ animationFrameId' = FALSE
            /\ debounceAt' = debounce(debounceAt, now)
    /\ SameSession /\ SameLife /\ SameScreen
    /\ UNCHANGED <<subscribed, primary, now, hidden, nextId>>
    /\ UNCHANGED lifeVars

PauseTimer ==
    /\ IF ~timerState.isRunning \/ timerState.isPaused
       THEN UNCHANGED <<timerState, rafQueue, animationFrameId, primary>>
       ELSE /\ timerState' = pauseTimerState(timerState, now)
            /\ rafQueue' = IF animationFrameId THEN CancelTracked(rafQueue) ELSE rafQueue
            /\ animationFrameId' = FALSE
            /\ primary' = saveTimerState(timerState')
    /\ SameSession /\ SameLife /\ SameScreen
    /\ UNCHANGED <<subscribed, debounceAt, now, hidden, nextId>>
    /\ UNCHANGED lifeVars

ResumeTimer ==
    /\ Len(rafQueue) < MaxRaf \/ ~timerState.isPaused
    /\ IF ~timerState.isPaused
       THEN UNCHANGED <<timerState, debounceAt, rafQueue, animationFrameId, intervals>>
       ELSE StartTimerBody
    /\ UNCHANGED <<runMs, sprOnly, blockEvents, completeEvents, reported>>
    /\ SameLife /\ SameScreen
    /\ UNCHANGED <<subscribed, primary, now, hidden, nextId>>
    /\ UNCHANGED lifeVars


\* nextBlock(): state, events, tick loop and debounced save
NextBlockBody ==
    LET last == isLastBlock(timerState)
        after == nextBlockState(timerState, now)
        before == getTotalElapsed(timerState, now)
    IN /\ timerState' = after
       /\ blockEvents' = IF subscribed THEN Min(blockEvents + 1, 3) ELSE blockEvents
       /\ IF last
          THEN /\ rafQueue' = IF animationFrameId THEN CancelTracked(rafQueue) ELSE rafQueue
               /\ animationFrameId' = FALSE
               /\ UNCHANGED debounceAt
               /\ IF subscribed
                  THEN /\ completeEvents' = Min(completeEvents + 1, 2)
                       /\ reported' = << [ times |-> after.blockTimesMs,
                                           total |-> SumSeq(after.blockTimesMs),
                                           before |-> before ] >>
                       \* the screen's handler up to its first await
                       /\ workoutActive' = FALSE
                       /\ workoutComplete' = TRUE
                       /\ completePc' = 1
                  ELSE UNCHANGED <<completeEvents, reported, workoutActive, workoutComplete,
                                   completePc>>
               /\ sprOnly' = FALSE
               /\ UNCHANGED <<runMs, intervals>>
          ELSE /\ debounceAt' = debounce(debounceAt, now)
               /\ runMs' = 0
               /\ intervals' = IF timerState.isRunning THEN 1 ELSE 0
               /\ UNCHANGED <<rafQueue, animationFrameId, completeEvents, reported,
                              workoutActive, workoutComplete, completePc, sprOnly>>
       /\ SameLife
       /\ UNCHANGED <<subscribed, primary, now, hidden, nextId, view, stopPc>>

NextBlock ==
    /\ NextBlockBody
    /\ UNCHANGED lifeVars

\* finishWorkout() only calls nextBlock()
FinishWorkout ==
    /\ NextBlockBody
    /\ UNCHANGED lifeVars

\* stopTimer(discard) that clears the stored record whatever discard is
StopTimerBodyAlwaysClears(discard, by) ==
    /\ discard => stopPc = <<>>
    /\ timerState' = [timerState EXCEPT !.isRunning = FALSE, !.isPaused = FALSE]
    /\ rafQueue' = IF animationFrameId THEN CancelTracked(rafQueue) ELSE rafQueue
    /\ animationFrameId' = FALSE
    /\ primary' = clearTimerState
    /\ IF discard
       THEN stopPc' = << [ by |-> by,
                           ids |-> ({timerState.workoutId}
                                    \cup (IF primary = <<>> THEN {} ELSE {primary[1].workoutId}))
                                   \ {Null} ] >>
       ELSE UNCHANGED stopPc
    /\ sprOnly' = FALSE
    /\ SameLife
    /\ UNCHANGED <<runMs, intervals, blockEvents, completeEvents, reported>>
    /\ UNCHANGED <<subscribed, debounceAt, now, hidden, nextId, workoutActive, workoutComplete,
                   view, completePc>>

\* stopTimer(discard) up to its await; by names the caller that continues afterwards
StopTimerBody(discard, by) ==
    /\ discard => stopPc = <<>>
    /\ timerState' = [timerState EXCEPT !.isRunning = FALSE, !.isPaused = FALSE]
    /\ rafQueue' = IF animationFrameId THEN CancelTracked(rafQueue) ELSE rafQueue
    /\ animationFrameId' = FALSE
    /\ IF discard
       THEN /\ primary' = clearTimerState
            /\ stopPc' = << [ by |-> by,
                              ids |-> ({timerState.workoutId}
                                       \cup (IF primary = <<>> THEN {} ELSE {primary[1].workoutId}))
                                      \ {Null} ] >>
       ELSE UNCHANGED <<primary, stopPc>>
    /\ sprOnly' = FALSE
    /\ SameLife
    /\ UNCHANGED <<runMs, intervals, blockEvents, completeEvents, reported>>
    /\ UNCHANGED <<subscribed, debounceAt, now, hidden, nextId, workoutActive, workoutComplete,
                   view, completePc>>

\* stopTimer(true) after clearTimerState() has resolved: resetTimerState(), then the caller's
\* continuation (full-sim.js 281-283, app.js 118)
StopTimerFinish ==
    /\ stopPc # <<>>
    /\ timerState' = EmptyTimerState
    /\ stopPc' = <<>>
    /\ discarded' = discarded \cup stopPc[1].ids
    /\ IF stopPc[1].by = "screen"
       THEN workoutActive' = FALSE /\ workoutComplete' = FALSE /\ view' = "setup"
       ELSE UNCHANGED <<workoutActive, workoutComplete, view>>
    /\ bannerVisible' = IF stopPc[1].by = "banner" THEN FALSE ELSE bannerVisible
    /\ SameSession
    /\ UNCHANGED <<tornDown, primaryAtStart, fallbackAtStart, skews, pbVars>>
    /\ UNCHANGED <<subscribed, animationFrameId, rafQueue, debounceAt, primary, now, hidden,
                   nextId, completePc>>
    /\ UNCHANGED <<fallback, initPc, loadFired, loadListener, migPc, migBackup, migExisting,
                   banner, resumeAccepted, restorePc>>

\* the screen's workout-complete handler after its awaits: clearStoredTimerState(), then the
\* completion view
CompletionHandlerFinish ==
    /\ completePc > 0
    /\ primary' = clearTimerState
    /\ view' = "complete"
    /\ completePc' = 0
    /\ SameSession /\ SameLife
    /\ UNCHANGED <<timerState, subscribed, animationFrameId, rafQueue, debounceAt, now, hidden,
                   nextId, workoutActive, workoutComplete, stopPc>>
    /\ UNCHANGED lifeVars

\* a requestAnimationFrame callback runs tick()
Tick ==
    /\ rafQueue # <<>>
    /\ ~hidden
    /\ IF timerState.isRunning
       THEN /\ debounceAt' = debounce(debounceAt, now)
            /\ rafQueue' = RequestFrame(Tail(rafQueue))
            /\ animationFrameId' = TRUE
       ELSE /\ rafQueue' = Tail(rafQueue)
            /\ UNCHANGED <<debounceAt, animationFrameId>>
    /\ SameSession /\ SameLife /\ SameScreen
    /\ UNCHANGED <<timerState, subscribed, primary, now, hidden, nextId>>
    /\ UNCHANGED lifeVars

\* a debounced save without the Running-or-Paused test
DebounceFireUnguarded ==
    /\ \E d \in debounceAt :
          /\ now >= d
          /\ debounceAt' = debounceAt \ {d}
    /\ primary' = saveTimerState(timerState)
    /\ SameSession /\ SameLife /\ SameScreen
    /\ UNCHANGED <<timerState, subscribed, animationFrameId, rafQueue, now, hidden, nextId>>
    /\ UNCHANGED lifeVars

\* the debounce timeout fires: later() runs the wrapped save
DebounceFire ==
    /\ \E d \in debounceAt :
          /\ now >= d
          /\ debounceAt' = debounceAt \ {d}
    /\ primary' = IF isActive(timerState) THEN saveTimerState(timerState) ELSE primary
    /\ SameSession /\ SameLife /\ SameScreen
    /\ UNCHANGED <<timerState, subscribed, animationFrameId, rafQueue, now, hidden, nextId>>
    /\ UNCHANGED lifeVars

\* a visibilitychange handler that leaves the write to the debounced save
PageHiddenDebounced ==
    /\ ~hidden
    /\ initPc # "unloaded"
    /\ hidden' = TRUE
    /\ debounceAt' = IF initPc = "done" /\ isActive(timerState)
                     THEN debounce(debounceAt, now) ELSE debounceAt
    /\ SameSession /\ SameLife /\ SameScreen
    /\ UNCHANGED <<timerState, subscribed, animationFrameId, rafQueue, primary, now, nextId>>
    /\ UNCHANGED lifeVars

\* visibilitychange to hidden
PageHidden ==
    /\ ~hidden
    /\ initPc # "unloaded"
    /\ hidden' = TRUE
    /\ primary' = IF initPc = "done" /\ isActive(timerState)
                  THEN saveTimerState(timerState) ELSE primary
    /\ SameSession /\ SameLife /\ SameScreen
    /\ UNCHANGED <<timerState, subscribed, animationFrameId, rafQueue, debounceAt, now, nextId>>
    /\ UNCHANGED lifeVars

\* visibilitychange to visible
PageVisible ==
    /\ hidden
    /\ hidden' = FALSE
    /\ IF initPc = "done" /\ timerState.isRunning
       THEN /\ Len(rafQueue) < MaxRaf
            /\ TickEffects
       ELSE UNCHANGED <<debounceAt, rafQueue, animationFrameId>>
    /\ SameSession /\ SameLife /\ SameScreen
    /\ UNCHANGED <<timerState, subscribed, primary, now, nextId>>
    /\ UNCHANGED lifeVars

\* the wall clock moves on by one unit; a due timeout fires before the clock passes it
Advance(maxT) ==
    /\ now < maxT
    /\ \A d \in debounceAt : now < d
    /\ now' = now + 1
    /\ runMs' = IF timerState.isRunning THEN runMs + 1 ELSE runMs
    /\ UNCHANGED <<intervals, sprOnly, blockEvents, completeEvents, reported>>
    /\ SameLife /\ SameScreen
    /\ UNCHANGED <<timerState, subscribed, animationFrameId, rafQueue, debounceAt, primary,
                   hidden, nextId>>
    /\ UNCHANGED lifeVars

\* ---- app.js and the page lifecycle ----
\* full-sim.js onMount(): the view it renders
MountView == IF workoutActive \/ workoutComplete THEN "active" ELSE "setup"

\* the route of the full-sim screen is entered for the first time on this page
MountFullSim ==
    /\ initPc = "done"
    /\ view = "none"
    /\ view' = MountView
    /\ SameSession /\ SameLife
    /\ UNCHANGED <<timerState, subscribed, animationFrameId, rafQueue, debounceAt, primary, now,
                   hidden, nextId, workoutActive, workoutComplete, completePc, stopPc>>
    /\ UNCHANGED lifeVars

\* "Start New Workout" on the completion view: renderSetupView()
NewWorkout ==
    /\ view = "complete"
    /\ view' = "setup"
    /\ workoutActive' = FALSE
    /\ workoutComplete' = FALSE
    /\ SameSession /\ SameLife
    /\ UNCHANGED <<timerState, subscribed, animationFrameId, rafQueue, debounceAt, primary, now,
                   hidden, nextId, completePc, stopPc>>
    /\ UNCHANGED lifeVars

\* the stopwatch controls of the active view
UiPause == view = "active" /\ PauseTimer

UiResume == view = "active" /\ ResumeTimer

UiNext == view = "active" /\ NextBlock

\* Stop, then Discard in the modal: stopTimer(true)
UiStopDiscard ==
    /\ view = "active"
    /\ StopTimerBody(TRUE, "screen")
    /\ UNCHANGED lifeVars

\* beforeunload handler, then the page and all of its memory are gone
BeforeUnload ==
    /\ initPc # "unloaded"
    /\ fallback' = IF initPc = "done" /\ isActive(timerState)
                   THEN <<JSONstringify(timerState)>> ELSE fallback
    /\ tornDown' = IF isActive(timerState) THEN <<timerState>> ELSE <<>>
    /\ timerState' = EmptyTimerState
    /\ subscribed' = FALSE
    /\ animationFrameId' = FALSE
    /\ rafQueue' = <<>>
    /\ debounceAt' = {}
    /\ hidden' = FALSE
    /\ workoutActive' = FALSE
    /\ workoutComplete' = FALSE
    /\ view' = "none"
    /\ completePc' = 0
    /\ stopPc' = <<>>
    /\ initPc' = "unloaded"
    /\ loadFired' = FALSE
    /\ loadListener' = FALSE
    /\ migPc' = "idle"
    /\ migBackup' = <<>>
    /\ migExisting' = <<>>
    /\ banner' = <<>>
    /\ bannerVisible' = FALSE
    /\ resumeAccepted' = FALSE
    /\ restorePc' = <<>>
    /\ runMs' = 0 /\ intervals' = 0 /\ sprOnly' = FALSE /\ blockEvents' = 0
    /\ completeEvents' = 0 /\ reported' = <<>>
    /\ UNCHANGED <<primary, now, nextId, primaryAtStart, fallbackAtStart, discarded, skews,
                   pbVars>>

\* the page is loaded again: app.js runs init(), which awaits initDB()
AppStart ==
    /\ initPc = "unloaded"
    /\ initPc' = "opening"
    /\ primaryAtStart' = primary
    /\ fallbackAtStart' = fallback
    /\ SameSession
    /\ UNCHANGED <<tornDown, discarded, skews, pbVars>>
    /\ UNCHANGED engineVars
    /\ UNCHANGED <<fallback, loadFired, loadListener, migPc, migBackup, migExisting, banner,
                   bannerVisible, resumeAccepted, restorePc>>

\* checkForActiveWorkout(): does the record read from the primary store get a banner
OffersResume(store) == HasSession(store) /\ isActive(store[1])

\* init() after initDB(): setupVisibilityHandler() registers the listeners, then
\* checkForActiveWorkout() reads the primary store and shows the banner
InitContinue ==
    /\ initPc = "opening"
    /\ initPc' = "done"
    /\ loadListener' = TRUE
    /\ banner' = IF OffersResume(primary) THEN primary ELSE <<>>
    /\ bannerVisible' = OffersResume(primary)
    /\ SameSession /\ SameLife
    /\ UNCHANGED engineVars
    /\ UNCHANGED <<fallback, loadFired, migPc, migBackup, migExisting, resumeAccepted, restorePc>>

\* the window load event; the listener runs only if it is registered by now.  It reads the
\* backup and, if there is one, asks the primary store for the existing record.
LoadEvent ==
    /\ initPc # "unloaded"
    /\ ~loadFired
    /\ loadFired' = TRUE
    /\ IF loadListener /\ fallback # <<>>
       THEN /\ migBackup' = <<JSONparse(fallback[1])>>
            /\ migExisting' = primary
            /\ migPc' = "existing"
       ELSE UNCHANGED <<migBackup, migExisting, migPc>>
    /\ SameSession /\ SameLife
    /\ UNCHANGED engineVars
    /\ UNCHANGED <<fallback, initPc, loadListener, banner, bannerVisible, resumeAccepted,
                   restorePc>>

\* load handler after getTimerState(): save the backup if nothing is stored, else drop it
LoadMigrate ==
    /\ migPc = "existing"
    /\ IF ~HasSession(migExisting)
       THEN /\ primary' = saveTimerState(migBackup[1])
            /\ migPc' = "saved"
            /\ UNCHANGED <<fallback, migBackup, migExisting>>
       ELSE /\ fallback' = <<>>
            /\ migPc' = "idle"
            /\ migBackup' = <<>>
            /\ migExisting' = <<>>
            /\ UNCHANGED primary
    /\ SameSession /\ SameLife /\ SameScreen
    /\ UNCHANGED <<timerState, subscribed, animationFrameId, rafQueue, debounceAt, now, hidden,
                   nextId>>
    /\ UNCHANGED <<initPc, loadFired, loadListener, banner, bannerVisible, resumeAccepted,
                   restorePc>>

\* load handler after saveTimerState(backupState): removeItem
LoadClear ==
    /\ migPc = "saved"
    /\ fallback' = <<>>
    /\ migPc' = "idle"
    /\ migBackup' = <<>>
    /\ migExisting' = <<>>
    /\ SameSession /\ SameLife
    /\ UNCHANGED engineVars
    /\ UNCHANGED <<initPc, loadFired, loadListener, banner, bannerVisible, resumeAccepted,
                   restorePc>>

\* Resume on the banner: hide it and navigate to the screen of the record's mode, whose
\* onMount() renders (a screen that is already shown is not mounted again)
ResumeClick ==
    /\ bannerVisible
    /\ bannerVisible' = FALSE
    /\ resumeAccepted' = TRUE
    /\ view' = IF view = "none" THEN MountView ELSE view
    /\ SameSession /\ SameLife
    /\ UNCHANGED <<timerState, subscribed, animationFrameId, rafQueue, debounceAt, primary, now,
                   hidden, nextId, workoutActive, workoutComplete, completePc, stopPc>>
    /\ UNCHANGED <<fallback, initPc, loadFired, loadListener, migPc, migBackup, migExisting,
                   banner, restorePc>>

\* Discard on the banner, confirmed: stopTimer(true)
BannerDiscard ==
    /\ bannerVisible
    /\ StopTimerBody(TRUE, "banner")
    /\ UNCHANGED lifeVars

\* ---- one page session: a workout is started from the set-up view and the engine is driven
\* ---- through its exported operations
Next ==
    \/ \E n \in 1..MaxBlocks : StartWorkout(n, MaxSessions)
    \/ StartTimer
    \/ PauseTimer
    \/ ResumeTimer
    \/ NextBlock
    \/ FinishWorkout
    \/ CompletionHandlerFinish
    \/ Tick
    \/ DebounceFire
    \/ Advance(MaxTime)

Spec == Init /\ [][Next]_vars


\* ---- the application across page loads, driven through its screens ----
NextLife ==
    \/ AppStart
    \/ InitContinue
    \/ LoadEvent
    \/ LoadMigrate
    \/ LoadClear
    \/ MountFullSim
    \/ StartWorkout(1, LifeMaxSessions)
    \/ NewWorkout
    \/ UiPause
    \/ UiResume
    \/ UiNext
    \/ UiStopDiscard
    \/ StopTimerFinish
    \/ CompletionHandlerFinish
    \/ ResumeClick
    \/ BannerDiscard
    \/ Tick
    \/ DebounceFire
    \/ PageHidden
    \/ PageVisible
    \/ BeforeUnload
    \/ Advance(LifeMaxTime)

SpecLife == InitLife /\ [][NextLife]_vars

\* ---- timer.js driven directly through its exported operations ----
\* initTimer(workoutId, mode, category, blocks) with a fresh id and n blocks
InitTimer(n) ==
    /\ nextId <= ApiMaxSessions
    /\ timerState' = initTimer(nextId, n)
    /\ nextId' = nextId + 1
    /\ runMs' = 0 /\ intervals' = 0 /\ sprOnly' = TRUE /\ blockEvents' = 0
    /\ completeEvents' = 0
    /\ reported' = <<>>
    /\ SameLife /\ SameScreen
    /\ UNCHANGED <<subscribed, animationFrameId, rafQueue, debounceAt, primary, now, hidden>>
    /\ UNCHANGED lifeVars

\* stopTimer(discard) called by a client of the engine
StopTimer(discard) ==
    /\ StopTimerBody(discard, "api")
    /\ UNCHANGED lifeVars

\* restoreTimer() that takes any stored record, with or without a workout id
restoreTimerStateAnyRecord(savedState, ts) == IF savedState # <<>> THEN savedState[1] ELSE ts

\* restoreTimer() after its read: the record replaces the state only if it carries a workout id
restoreTimerState(savedState, ts) == IF HasSession(savedState) THEN savedState[1] ELSE ts

\* what restoreTimer() returns: the restored state, or null
restoreTimerReturn(savedState, ts) ==
    IF HasSession(savedState) THEN <<restoreTimerState(savedState, ts)>> ELSE <<>>

\* restoreTimer() up to its await: getTimerState() is issued
RestoreBegin ==
    /\ restorePc = <<>>
    /\ restorePc' = <<primary>>
    /\ UNCHANGED <<engineVars, histVars, pbVars>>
    /\ UNCHANGED <<fallback, initPc, loadFired, loadListener, migPc, migBackup, migExisting,
                   banner, bannerVisible, resumeAccepted>>

\* restoreTimer() after getTimerState() has resolved
RestoreFinish ==
    /\ restorePc # <<>>
    /\ timerState' = restoreTimerState(restorePc[1], timerState)
    /\ restorePc' = <<>>
    /\ sprOnly' = (sprOnly /\ ~HasSession(restorePc[1]))
    /\ UNCHANGED <<runMs, intervals, blockEvents, completeEvents, reported>>
    /\ SameLife /\ SameScreen
    /\ UNCHANGED <<subscribed, animationFrameId, rafQueue, debounceAt, primary, now, hidden,
                   nextId>>
    /\ UNCHANGED <<fallback, initPc, loadFired, loadListener, migPc, migBackup, migExisting,
                   banner, bannerVisible, resumeAccepted>>

NextApi ==
    \/ \E n \in 1..ApiMaxBlocks : InitTimer(n)
    \/ StartTimer
    \/ PauseTimer
    \/ ResumeTimer
    \/ NextBlock
    \/ StopTimer(FALSE)
    \/ RestoreBegin
    \/ RestoreFinish
    \/ Tick
    \/ DebounceFire
    \/ Advance(ApiMaxTime)

SpecApi == Init /\ [][NextApi]_vars

\* ---- the engine under a wall clock that can be set back ----
\* Date.now() follows the system clock, which an adjustment can move backwards
ClockBack ==
    /\ skews < MaxSkews
    /\ now > 0
    /\ now' = now - 1
    /\ skews' = skews + 1
    /\ SameSession /\ SameScreen
    /\ UNCHANGED <<tornDown, primaryAtStart, fallbackAtStart, discarded, pbVars>>
    /\ UNCHANGED <<timerState, subscribed, animationFrameId, rafQueue, debounceAt, primary,
                   hidden, nextId>>
    /\ UNCHANGED lifeVars

NextSkew ==
    \/ \E n \in 1..MaxBlocks : StartWorkout(n, MaxSessions)
    \/ PauseTimer
    \/ ResumeTimer
    \/ NextBlock
    \/ CompletionHandlerFinish
    \/ Tick
    \/ DebounceFire
    \/ Advance(SkewMaxTime)
    \/ ClockBack

SpecSkew == Init /\ [][NextSkew]_vars

\* ---- the engine on a visible page that renders every frame ----
\* A frame (about 16 ms) is shorter than the time unit: while the engine is Running, the
\* tick of the current frame has run before the clock reaches the next unit.
FrameAdvance(maxT) ==
    /\ timerState.isRunning => debounceAt = debounce(debounceAt, now)
    /\ Advance(maxT)

NextFrames ==
    \/ \E n \in 1..MaxBlocks : StartWorkout(n, MaxSessions)
    \/ NextBlock
    \/ CompletionHandlerFinish
    \/ Tick
    \/ DebounceFire
    \/ FrameAdvance(FrameMaxTime)

SpecFrames == Init /\ [][NextFrames]_vars

\* ---- a page load that finds the record of an earlier session ----
\* session 1 (one block) as a pause at 1 left it after a start at 0
BannerRecord == pauseTimerState(startTimerState(initTimer(1, 1), 0), 1)

\* The page has been torn down with session 1 Paused and is loaded again: the pause wrote the
\* record to the primary store, beforeunload wrote the backup, init() awaits initDB().
InitBanner ==
    /\ FreshPage
    /\ NoPersonalBests
    /\ primary = saveTimerState(BannerRecord)
    /\ fallback = <<JSONstringify(BannerRecord)>>
    /\ now = 1
    /\ nextId = 2
    /\ initPc = "opening"
    /\ loadFired = FALSE
    /\ loadListener = FALSE
    /\ view = "none"
    /\ runMs = 0 /\ intervals = 0 /\ sprOnly = FALSE /\ blockEvents = 0
    /\ completeEvents = 0 /\ reported = <<>>
    /\ tornDown = <<BannerRecord>>
    /\ primaryAtStart = primary
    /\ fallbackAtStart = fallback
    /\ discarded = {}
    /\ skews = 0

NextBanner ==
    \/ InitContinue
    \/ LoadEvent
    \/ LoadMigrate
    \/ LoadClear
    \/ MountFullSim
    \/ StartWorkout(1, BannerMaxSessions)
    \/ UiPause
    \/ UiResume
    \/ ResumeClick
    \/ BannerDiscard
    \/ StopTimerFinish
    \/ Tick
    \/ DebounceFire
    \/ Advance(BannerMaxTime)

SpecBanner == InitBanner /\ [][NextBanner]_vars

\* ---- db.js updatePersonalBest(category, exerciseId, timeMs), calls for one key ----
\* the test that decides whether the new time is stored
pbImproves(timeMs, existing) == existing = Null \/ timeMs < existing

\* a completion handler calls updatePersonalBest: get() is issued
UpdatePbCall(timeMs) ==
    /\ Len(pbCalls) < MaxPbCalls
    /\ pbCalls' = Append(pbCalls, [timeMs |-> timeMs, pc |-> "get", existing |-> Null])
    /\ UNCHANGED <<engineVars, lifeVars, histVars, personalBest>>

\* get() resolves with the entry as stored at that moment
UpdatePbGet ==
    /\ \E i \in 1..Len(pbCalls) :
          /\ pbCalls[i].pc = "get"
          /\ pbCalls' = [pbCalls EXCEPT ![i].pc = "put", ![i].existing = personalBest]
    /\ UNCHANGED <<engineVars, lifeVars, histVars, personalBest>>

\* the rest of the call: put() if the time improves on the entry that was read
UpdatePbPut ==
    /\ \E i \in 1..Len(pbCalls) :
          /\ pbCalls[i].pc = "put"
          /\ personalBest' = IF pbImproves(pbCalls[i].timeMs, pbCalls[i].existing)
                             THEN pbCalls[i].timeMs ELSE personalBest
          /\ pbCalls' = [pbCalls EXCEPT ![i].pc = "done"]
    /\ UNCHANGED <<engineVars, lifeVars, histVars>>

NextPb ==
    \/ \E timeMs \in 1..MaxPbTime : UpdatePbCall(timeMs)
    \/ UpdatePbGet
    \/ UpdatePbPut

SpecPb == Init /\ [][NextPb]_vars

\* ---- properties of the engine (checked under Spec) ----

\* C1: drift-freedom.  While Paused, on a block driven only by start/pause/resume and ticks,
\* currentElapsed() is exactly the clock time that passed while the engine was Running on
\* that block; and a tick changes no field of the session state.
C1_DriftFree ==
    /\ [](sprOnly /\ timerState.isPaused => getCurrentElapsed(timerState, now) = runMs)
    /\ [][Tick => timerState' = timerState]_vars

\* C1 witness: Paused after two Running intervals of the first block, two units measured
C1_Witness ==
    /\ sprOnly /\ timerState.isPaused /\ intervals = 2
    /\ timerState.currentBlockIndex = 0
    /\ runMs = 2 /\ timerState.accumulatedMs = 2

\* C5: nextBlock() while Running on a block that is not the last stores
\* accumulatedMs + (now - startTimestamp) as that block's time, moves to the next block,
\* zeroes accumulatedMs, restarts startTimestamp at now and stays Running.
C5_AdvanceWhileRunning ==
    [][ (NextBlock /\ timerState.isRunning /\ ~isLastBlock(timerState)) =>
          /\ timerState'.blockTimesMs[timerState.currentBlockIndex + 1]
                = timerState.accumulatedMs + (now - timerState.startTimestamp)
          /\ timerState'.currentBlockIndex = timerState.currentBlockIndex + 1
          /\ timerState'.accumulatedMs = 0
          /\ timerState'.startTimestamp = now
          /\ timerState'.isRunning /\ ~timerState'.isPaused ]_vars

\* C5 witness: the first of two blocks was paused after one unit (the pause wrote the
\* record still in the primary store), resumed, and advanced after one more unit
C5_Witness ==
    /\ timerState.currentBlockIndex = 1 /\ timerState.blockTimesMs = <<2, Null>>
    /\ timerState.isRunning /\ timerState.accumulatedMs = 0
    /\ timerState.startTimestamp = now
    /\ primary # <<>> /\ primary[1].isPaused /\ primary[1].accumulatedMs = 1
    /\ primary[1].currentBlockIndex = 0

\* C6 as claimed: the call that completes the last block leaves the engine Idle,
\* whether it was made while Running or while Paused.
C6_IdleAfterLastBlock ==
    [][ ((NextBlock \/ FinishWorkout) /\ isLastBlock(timerState)) =>
          /\ ~timerState'.isRunning /\ ~timerState'.isPaused
          /\ ~isActive(timerState')
          /\ getCurrentElapsed(timerState', now') = 0 ]_vars

\* C7 as claimed: the total of the workout-complete event is the sum of all block times,
\* all of them set, and equals totalElapsed() read just before the call.
C7_ReportedTotal ==
    reported # <<>> =>
        /\ reported[1].total = SumSeq(reported[1].times)
        /\ \A i \in 1..Len(reported[1].times) : reported[1].times[i] # Null
        /\ reported[1].total = reported[1].before

\* C8 as claimed: workout-complete is emitted at most once per session, and a block time,
\* once set, is never changed within the session.
C8_CompleteOnce ==
    /\ [](completeEvents <= 1)
    /\ [][ timerState'.workoutId = timerState.workoutId =>
             \A i \in 1..Len(timerState.blockTimesMs) :
                 timerState.blockTimesMs[i] # Null =>
                     timerState'.blockTimesMs[i] = timerState.blockTimesMs[i] ]_vars


\* C15: in an initialised session the time of block i is set exactly when i is below
\* currentBlockIndex, also once the last block has been completed.
C15_SetBelowIndex ==
    timerState.workoutId # Null =>
        \A i \in 0..(Len(timerState.blocks) - 1) :
            (timerState.blockTimesMs[i + 1] # Null) <=> (i < timerState.currentBlockIndex)

\* C17: the first start stores its clock reading in workoutStartTimestamp, and no later
\* operation on the same session changes the stored value, whatever that reading was.
C17_WorkoutStartFixed ==
    /\ [][\A n \in 1..MaxBlocks : StartWorkout(n, MaxSessions) =>
              timerState'.workoutStartTimestamp = now]_vars
    /\ [][(/\ timerState.workoutId # Null
           /\ timerState'.workoutId = timerState.workoutId
           /\ timerState.workoutStartTimestamp # Null)
          => timerState'.workoutStartTimestamp = timerState.workoutStartTimestamp]_vars

C20_AdvanceWritesAtOnce ==
    [][(NextBlock /\ ~isLastBlock(timerState) /\ isActive(timerState))
          => primary' = saveTimerState(timerState')]_vars

\* C21: a pause that takes effect writes, within the call and without touching the debounce
\* timeout, a record that is Paused and whose accumulatedMs includes the Running interval
\* just ended; the tick request the engine tracks is cancelled.
C21_PauseWritesAtOnce ==
    [][(PauseTimer /\ timerState.isRunning /\ ~timerState.isPaused) =>
          /\ primary' = saveTimerState(timerState')
          /\ primary'[1].isPaused /\ ~primary'[1].isRunning
          /\ primary'[1].accumulatedMs =
                 timerState.accumulatedMs + (now - timerState.startTimestamp)
          /\ debounceAt' = debounceAt
          /\ animationFrameId' = FALSE
          /\ \A i \in 1..Len(rafQueue') : ~rafQueue'[i]]_vars

\* C21 witness: Paused with one unit measured and the record of that pause in the store,
\* while the timeout armed by the start is still pending.
C21_Witness ==
    /\ timerState.isPaused
    /\ timerState.accumulatedMs = 1
    /\ timerState.pausedAt = now
    /\ primary = <<timerState>>
    /\ debounceAt # {}
    /\ rafQueue = <<>>

\* C27: an advance while Paused on a block that is not the last records accumulatedMs (the
\* time spent Running on the block) as its time and leaves the engine Paused; the new
\* block reads 0 for as long as no Running interval of it has begun.
C27_AdvanceWhilePaused ==
    /\ [][(NextBlock /\ timerState.isPaused /\ ~isLastBlock(timerState)) =>
             /\ timerState'.blockTimesMs[timerState.currentBlockIndex + 1]
                    = timerState.accumulatedMs
             /\ sprOnly => timerState'.blockTimesMs[timerState.currentBlockIndex + 1] = runMs
             /\ timerState'.isPaused /\ ~timerState'.isRunning
             /\ getCurrentElapsed(timerState', now) = 0]_vars
    /\ [](timerState.isPaused /\ intervals = 0 => getCurrentElapsed(timerState, now) = 0)

\* C27 witness: started at 0, paused at 1, advanced while Paused at 2; at 3 the engine is
\* still Paused on block 1, block 0 has the one unit it ran.
C27_Witness ==
    /\ now = 3
    /\ timerState.isPaused
    /\ timerState.currentBlockIndex = 1
    /\ timerState.blockTimesMs = <<1, Null>>
    /\ timerState.pausedAt = 1
    /\ timerState.startTimestamp = 2
    /\ intervals = 0

\* ---- properties of the start-up and recovery path (checked under SpecLife) ----

\* every start-up step of the current page load has run or been missed
StartupComplete == initPc = "done" /\ loadFired /\ migPc = "idle"

\* the load handler finishes: it is the only code that empties the fallback slot
MigrationEnds == fallback # <<>> /\ fallback' = <<>>

\* C2 as claimed: when a session was Running or Paused at page teardown, the next
\* application start offers resume-or-discard for it, however its steps are ordered.
C2_ResumeOffered ==
    (StartupComplete /\ tornDown # <<>>) =>
        (banner # <<>> /\ banner[1].workoutId = tornDown[1].workoutId)

\* C3 as claimed: when Resume is accepted the screen is mounted with the engine holding the
\* persisted record, and shows the workout in progress.
C3_RestoredBeforeRender ==
    [][ ResumeClick =>
          /\ HasSession(primary') /\ timerState' = primary'[1]
          /\ view' = "active" ]_vars

\* C4 as claimed: after a teardown with an active session, once the migration step of the
\* next start has finished, the primary store holds the session state of the teardown.
C4_PrimaryIsTeardownState ==
    [][ (MigrationEnds /\ tornDown # <<>>) => primary' = <<tornDown[1]>> ]_vars

\* C9 as claimed: when stop(discard=true) completes the primary store is empty and the
\* engine is the empty template, and no later write stores a record of a discarded session.
C9_DiscardIsFinal ==
    /\ [][ StopTimerFinish => (primary' = <<>> /\ timerState' = EmptyTimerState) ]_vars
    /\ [](\A id \in discarded : ~(primary # <<>> /\ primary[1].workoutId = id))

\* C10 as claimed: on a start that finds a record in the fallback slot the migration step
\* runs and leaves the slot empty; it stores the fallback record if the primary store held
\* no session before the step and leaves the primary store alone otherwise.
C10_FallbackMigrated ==
    /\ []((StartupComplete /\ fallbackAtStart # <<>>) => fallback = <<>>)
    /\ [][ MigrationEnds =>
             IF HasSession(migExisting)
             THEN primary' = migExisting
             ELSE primary' = <<JSONparse(fallback[1])>> ]_vars

\* C22: when the page becomes hidden while the engine is Running or Paused, the current
\* state is written to the primary store in that step, the debounce timeout untouched;
\* when the engine is Idle the store is left as it is.
C22_HiddenWritesAtOnce ==
    [][PageHidden =>
          /\ isActive(timerState) => primary' = saveTimerState(timerState)
          /\ ~isActive(timerState) => primary' = primary
          /\ debounceAt' = debounceAt
          /\ timerState' = timerState]_vars

\* C22 witness: the page was hidden in the instant the workout started, so the Running
\* record in the store can only come from the visibility handler (the timeout armed by the
\* start is still pending).
C22_Witness ==
    /\ hidden
    /\ timerState.isRunning
    /\ timerState.startTimestamp = now
    /\ timerState.accumulatedMs = 0
    /\ debounceAt = {now + DebounceWait}
    /\ primary = <<timerState>>

\* C23: an operation has made all of its changes to the in-memory state when its
\* synchronous part returns; for stop(discard=true) that includes the reset to the
\* empty template.
C23_SynchronousOutcome ==
    [][(UiStopDiscard \/ BannerDiscard) => timerState' = EmptyTimerState]_vars

\* C24: once the completion handler of a workout has cleared the stored timer state, no
\* step writes a record of that session to the primary store or to the fallback slot.
C24_CompletedNeverRewritten ==
    [][(completeEvents > 0 /\ completePc = 0 /\ timerState.workoutId # Null) =>
          /\ (primary' # primary /\ primary' # <<>>)
                 => primary'[1].workoutId # timerState.workoutId
          /\ (fallback' # fallback /\ fallback' # <<>>)
                 => JSONparse(fallback'[1]).workoutId # timerState.workoutId]_vars

\* C26: at most one tick callback is pending at any time.
C26_OneTickPending == Len(rafQueue) <= 1

\* C29: a record in the primary store or in the fallback slot carries a workout id and is
\* Running or Paused, never Idle and never both.
C29_WrittenRecordsActive ==
    /\ primary # <<>> =>
          /\ primary[1].workoutId # Null
          /\ primary[1].isRunning # primary[1].isPaused
    /\ fallback # <<>> =>
          /\ JSONparse(fallback[1]).workoutId # Null
          /\ JSONparse(fallback[1]).isRunning # JSONparse(fallback[1]).isPaused

\* C29 witness: after a teardown both stores hold a record: the primary store the Paused
\* one written by a pause, the fallback slot the Running state at teardown.
C29_Witness ==
    /\ initPc = "unloaded"
    /\ primary # <<>>
    /\ primary[1].isPaused
    /\ fallback # <<>>
    /\ JSONparse(fallback[1]).isRunning

\* ---- properties of the exported operations (checked under SpecApi) ----

C12_NothingToRestore ==
    [][RestoreFinish /\ ~HasSession(restorePc[1]) =>
          /\ timerState' = timerState
          /\ restoreTimerReturn(restorePc[1], timerState) = <<>>
          /\ UNCHANGED <<primary, debounceAt, rafQueue, animationFrameId>>]_vars

\* C12 witness: a restore has read a record that carries no workout id (written by a pause
\* of a timer that was started without initTimer) while the engine is Running again.
C12_Witness ==
    /\ restorePc # <<>>
    /\ restorePc[1] # <<>>
    /\ restorePc[1][1].workoutId = Null
    /\ restorePc[1][1].isPaused
    /\ timerState.isRunning

\* C13: start while Running, pause while Idle or Paused, and resume while Idle or Running
\* change nothing: no field, no event count, no tick request, no timer, no store.
C13_InvalidTransitionsNoOp ==
    [][(\/ StartTimer /\ timerState.isRunning
        \/ PauseTimer /\ (~timerState.isRunning \/ timerState.isPaused)
        \/ ResumeTimer /\ ~timerState.isPaused) => UNCHANGED vars]_vars

\* C13 witness: the engine is Running on an initialised session and the clock has moved on
\* since the interval began, so a start that went through would move startTimestamp.
C13_Witness ==
    /\ timerState.workoutId # Null
    /\ timerState.isRunning
    /\ now > timerState.startTimestamp
    /\ primary # <<>>

\* C14: the run state is one of Idle, Running, Paused: the flags are never both true.
C14_OneRunState == ~(timerState.isRunning /\ timerState.isPaused)

\* C14 witness: Running again after a pause that had measured time, the paused flag cleared.
C14_Witness ==
    /\ timerState.isRunning
    /\ ~timerState.isPaused
    /\ timerState.accumulatedMs > 0
    /\ primary # <<>>
    /\ primary[1].isPaused
\* C25: stop(discard=false) leaves the engine Idle with no tracked tick request; every other
\* field of the session state, the stored record, the fallback slot and the debounce
\* timeout are as before.
C25_StopKeepsResults ==
    [][StopTimer(FALSE) =>
          /\ timerState' = [timerState EXCEPT !.isRunning = FALSE, !.isPaused = FALSE]
          /\ ~isActive(timerState')
          /\ animationFrameId' = FALSE
          /\ \A i \in 1..Len(rafQueue') : ~rafQueue'[i]
          /\ UNCHANGED <<primary, fallback, debounceAt>>]_vars

\* C25 witness: Idle on the first block of an initialised session, with the time measured
\* before a pause still in accumulatedMs and the record of that pause still stored.
C25_Witness ==
    /\ timerState.workoutId # Null
    /\ ~isActive(timerState)
    /\ timerState.accumulatedMs > 0
    /\ timerState.currentBlockIndex = 0
    /\ \A i \in 1..Len(timerState.blockTimesMs) : timerState.blockTimesMs[i] = Null
    /\ HasSession(primary)
    /\ primary[1] = [timerState EXCEPT !.isPaused = TRUE]

\* ---- the resume banner and a new session (checked under SpecBanner) ----

\* C28: Discard on the banner, from the click to the end of stopTimer(true), changes no field
\* of an in-memory session other than the one the banner offered.
C28_DiscardSparesNewSession ==
    [][(/\ BannerDiscard \/ (StopTimerFinish /\ stopPc[1].by = "banner")
        /\ banner # <<>>
        /\ timerState.workoutId # Null
        /\ timerState.workoutId # banner[1].workoutId)
          => timerState' = timerState]_vars

\* ---- personal bests (checked under SpecPb) ----

\* C30: when every updatePersonalBest call for the key has completed, the stored best time
\* is the least of the submitted times (nothing was stored before the first call).
C30_BestIsMinimum ==
    (pbCalls # <<>> /\ \A i \in 1..Len(pbCalls) : pbCalls[i].pc = "done") =>
        /\ \E i \in 1..Len(pbCalls) : personalBest = pbCalls[i].timeMs
        /\ \A i \in 1..Len(pbCalls) : personalBest <= pbCalls[i].timeMs

\* ---- the wall clock (checked under SpecSkew) ----

\* C16: accumulatedMs is never negative, whatever the clock returns; it is 0 right after an
\* advance to a new block and right after a start from Idle.
C16_AccumulatedNonNegative ==
    /\ [](timerState.accumulatedMs >= 0)
    /\ [][(NextBlock /\ ~isLastBlock(timerState)) => timerState'.accumulatedMs = 0]_vars
    /\ [][(\E n \in 1..MaxBlocks : StartWorkout(n, MaxSessions))
             => timerState'.accumulatedMs = 0]_vars

\* ---- periodic persistence (checked under SpecFrames) ----

\* C18: once the engine has been Running on a block for two debounce windows, with a tick
\* on every frame, the primary store holds a record of the session written by the
\* debounced save.
C18_PeriodicSave ==
    (timerState.isRunning /\ runMs >= 2 * DebounceWait) =>
        (HasSession(primary) /\ primary[1].workoutId = timerState.workoutId)
====
